---------------------------- MODULE Spec2Model ----------------------------
(***************************************************************************)
(* A model of the iNES / NES 2.0 header decoder CartridgeData::new of      *)
(* src/src/memory.rs.  The decoder is a pure function of the file bytes;   *)
(* the state machine draws a file from a bounded family of inputs and      *)
(* applies the decoder to it once.                                         *)
(*                                                                         *)
(* Bytes are naturals in 0..255.  A usize is 64 bits wide and is kept as   *)
(* four 16-bit limbs, least significant first, so that the shift and the   *)
(* multiplication of the exponent/multiplier notation keep their width.    *)
(* Arithmetic overflow is not undefined in Rust but depends on the build:  *)
(* with overflow checks (debug) it panics, without (release) it wraps.     *)
(* The build is an input of the decoder, chosen by the action.             *)
(***************************************************************************)
EXTENDS Integers, Sequences, FiniteSets, TLC

VARIABLES filebytes, pc, result

vars == <<filebytes, pc, result>>

---------------------------------------------------------------------------
(* Rust's integer operators on naturals. *)

RECURSIVE BitAnd(_, _)
BitAnd(a, b) ==
    IF a = 0 \/ b = 0 THEN 0
    ELSE (a % 2) * (b % 2) + 2 * BitAnd(a \div 2, b \div 2)

RECURSIVE BitOr(_, _)
BitOr(a, b) ==
    IF a = 0 THEN b
    ELSE IF b = 0 THEN a
    ELSE (IF a % 2 = 1 \/ b % 2 = 1 THEN 1 ELSE 0) + 2 * BitOr(a \div 2, b \div 2)

Shr(a, n) == a \div (2 ^ n)

Shl(a, n) == a * (2 ^ n)

---------------------------------------------------------------------------
(* usize: 64 bits as four limbs of 16 bits, least significant limb first. *)

usize_BITS == 64

LimbBase == 2 ^ 16

NumLimbs == usize_BITS \div 16

\* `x as usize` for a value below 2^16
as_usize(n) == [i \in 1..NumLimbs |-> IF i = 1 THEN n ELSE 0]

\* `0b1 << exponent` for exponent < 64
usize_shl1(exponent) ==
    [i \in 1..NumLimbs |-> IF i = (exponent \div 16) + 1 THEN 2 ^ (exponent % 16) ELSE 0]

\* the limbs i.. of x * k followed by the carry out of the top limb
RECURSIVE MulFrom(_, _, _, _)
MulFrom(x, k, i, carry) ==
    IF i > NumLimbs THEN <<carry>>
    ELSE LET p == x[i] * k + carry
         IN  <<p % LimbBase>> \o MulFrom(x, k, i + 1, p \div LimbBase)

\* x * k on usize: the wrapped product and whether it overflowed
usize_mul(x, k) ==
    LET wide == MulFrom(x, k, 1, 0)
    IN  [value |-> SubSeq(wide, 1, NumLimbs), overflow |-> wide[NumLimbs + 1] # 0]

\* n > isize::MAX
exceeds_isize_MAX(n) == n[NumLimbs] >= LimbBase \div 2

---------------------------------------------------------------------------
(* The outcomes of the decoder. *)

TooShort == [kind |-> "TooShort"]

InvalidHeader(index) == [kind |-> "InvalidHeader", index |-> index]

Panic(what, at) == [kind |-> "panic", what |-> what, at |-> at]

None == [present |-> FALSE, bytes |-> <<>>]

Some(bytes) == [present |-> TRUE, bytes |-> bytes]

---------------------------------------------------------------------------
(* CartridgeData::new, block by block.  header[i] of the code is H(header, i). *)

HeaderLen == 16

TrainerLen == 512

valid_first_four == <<78, 69, 83, 26>>

H(header, i) == header[i + 1]

\* filebytes[from..to]
Slice(bytes, from, to) == SubSeq(bytes, from + 1, to)

\* the length test off by one
too_short_off_by_one(bytes) == Len(bytes) < HeaderLen - 1


too_short(bytes) == Len(bytes) < HeaderLen

\* the signature loop run from the last byte to the first
check_first_four_reversed(header, index) ==
    IF \A i \in index..3 : H(header, i) = valid_first_four[i + 1] THEN -1
    ELSE CHOOSE i \in index..3 :
             /\ H(header, i) # valid_first_four[i + 1]
             /\ \A j \in (i + 1)..3 : H(header, j) = valid_first_four[j + 1]

\* for index in 0..4 { if header[index] != valid_first_four[index] { return ... } }
\* the index the loop returns with, or -1 when it runs to its end
RECURSIVE check_first_four(_, _)
check_first_four(header, index) ==
    IF index >= 4 THEN -1
    ELSE IF H(header, index) # valid_first_four[index + 1] THEN index
    ELSE check_first_four(header, index + 1)

vertical_mirroring(header) == BitAnd(H(header, 6), 1) = 1

prg_ram_present(header) == Shr(BitAnd(H(header, 6), 2), 1) = 1

trainer_flag(header) == Shr(BitAnd(H(header, 6), 4), 2) = 1

\* the mask of ROM::new (src/src/rom.rs line 50), which never matches
four_screen_vram_rom_mask(header) == Shr(BitAnd(H(header, 6), 1), 3) = 1


four_screen_vram(header) == Shr(BitAnd(H(header, 6), 8), 3) = 1

\* the trainer block: [ok, trainer]; not ok is Err(InvalidHeader { index: 6 })
trainer(bytes, header) ==
    IF trainer_flag(header)
    THEN IF Len(bytes) >= HeaderLen + TrainerLen
         THEN [ok |-> TRUE, trainer |-> Some(Slice(bytes, HeaderLen, HeaderLen + TrainerLen))]
         ELSE [ok |-> FALSE, trainer |-> None]
    ELSE [ok |-> TRUE, trainer |-> None]

\* the NES 2.0 test on bit 3 alone
is_nes2_bit3_only(header) == BitAnd(H(header, 7), 8) # 0


is_nes2(header) == Shr(BitAnd(H(header, 7), 12), 2) = 2

\* the mapper MSB of byte 8 merged in both dialects
mapper_number_always_msb(header) ==
    BitOr(BitOr(BitAnd(H(header, 7), 240), Shr(BitAnd(H(header, 6), 240), 4)),
          Shl(BitAnd(H(header, 8), 15), 8))


mapper_number(header) ==
    LET base == BitOr(BitAnd(H(header, 7), 240), Shr(BitAnd(H(header, 6), 240), 4))
    IN  IF is_nes2(header)
        THEN BitOr(base, Shl(BitAnd(H(header, 8), 15), 8))
        ELSE base

\* prg_rom_size before the exponent/multiplier step
prg_rom_size(header) ==
    IF is_nes2(header)
    THEN BitOr(H(header, 4), Shl(BitAnd(H(header, 9), 15), 8))
    ELSE H(header, 4)

\* the CHR size MSB taken from the PRG nibble of byte 9
chr_rom_size_prg_nibble(header) ==
    IF is_nes2(header)
    THEN BitOr(H(header, 5), Shl(BitAnd(H(header, 9), 15), 8))
    ELSE H(header, 5)

\* chr_rom_size before the exponent/multiplier step
chr_rom_size(header) ==
    IF is_nes2(header)
    THEN BitOr(H(header, 5), Shl(BitAnd(H(header, 9), 240), 4))
    ELSE H(header, 5)

uses_exponent(size) == Shr(size, 8) = 15

\* if size >> 8 == 0xf { size = (0b1 << exponent) * (multiplier * 2 + 1); }
\* [panic, value]: the multiplication panics when it overflows in a build with
\* overflow checks and wraps in one without
exponent_multiplier(size, overflow_checks) ==
    IF uses_exponent(size)
    THEN LET multiplier == BitAnd(size, 3)
             exponent == Shr(BitAnd(size, 255), 2)
             product == usize_mul(usize_shl1(exponent), multiplier * 2 + 1)
         IN  [panic |-> overflow_checks /\ product.overflow, value |-> product.value]
    ELSE [panic |-> FALSE, value |-> as_usize(size)]

\* the capacity scaled to bytes (units of 8192)
with_capacity_in_bytes(capacity) ==
    [panic |-> exceeds_isize_MAX(usize_mul(capacity, 8192).value),
     vec |-> [data |-> <<>>, capacity |-> usize_mul(capacity, 8192).value]]

\* Vec::with_capacity(capacity) of bytes: an empty vector, or a capacity
\* overflow panic when capacity > isize::MAX.  The allocator is taken to
\* satisfy every request up to isize::MAX; where it cannot, the process aborts
\* and there is no outcome of the decoder at all.
with_capacity(capacity) ==
    [panic |-> exceeds_isize_MAX(capacity),
     vec |-> [data |-> <<>>, capacity |-> capacity]]

CartridgeData_new(bytes, overflow_checks) ==
    IF too_short(bytes) THEN TooShort
    ELSE IF Len(bytes) < HeaderLen THEN Panic("range end index out of range", "filebytes")
    ELSE
    LET header == Slice(bytes, 0, HeaderLen)
        bad == check_first_four(header, 0)
        tr == trainer(bytes, header)
        chr == exponent_multiplier(chr_rom_size(header), overflow_checks)
        prg == exponent_multiplier(prg_rom_size(header), overflow_checks)
        chr_rom == with_capacity(chr.value)
        prg_rom == with_capacity(prg.value)
    IN  IF bad # -1 THEN InvalidHeader(bad)
        ELSE IF ~tr.ok THEN InvalidHeader(6)
        ELSE IF chr.panic THEN Panic("attempt to multiply with overflow", "chr_rom_size")
        ELSE IF prg.panic THEN Panic("attempt to multiply with overflow", "prg_rom_size")
        ELSE IF chr_rom.panic THEN Panic("capacity overflow", "chr_rom")
        ELSE IF prg_rom.panic THEN Panic("capacity overflow", "prg_rom")
        ELSE [kind |-> "Ok",
              trainer |-> tr.trainer,
              prg_rom |-> prg_rom.vec,
              chr_rom |-> chr_rom.vec,
              mapper_number |-> mapper_number(header),
              vertical_mirroring |-> vertical_mirroring(header),
              four_screen_vram |-> four_screen_vram(header)]

---------------------------------------------------------------------------
(* The input files. *)

NumFill == 2

MaxExtra == 1

\* the byte at 0-based position i of the payload that follows a header
Fill(seed, i) == (seed * 37 + i * (2 * seed + 1) + i \div 256) % 256

Header(sig, b4, b5, b6, b7, b8, b9, b10, b11, b12, pad) ==
    sig \o <<b4, b5, b6, b7, b8, b9, b10, b11, b12, pad, pad, pad>>

\* the first len bytes of the file made of header and the payload of seed
File(header, seed, len) ==
    [i \in 1..len |-> IF i <= HeaderLen THEN header[i] ELSE Fill(seed, i - 1)]

Blank(b6, b7) == Header(valid_first_four, 0, 0, b6, b7, 0, 0, 0, 0, 0, 0)

LongLens == {HeaderLen, HeaderLen + 1, HeaderLen + TrainerLen - 1}
            \cup (HeaderLen + TrainerLen .. HeaderLen + TrainerLen + MaxExtra)

\* inputs shorter than a header: prefixes of valid and invalid headers
ShortFiles ==
    \E h \in {Blank(0, 0), Blank(4, 0), Blank(4, 8),
              Header(<<0, 0, 0, 0>>, 0, 0, 4, 0, 0, 0, 0, 0, 0, 0)},
       len \in 0..(HeaderLen - 1) :
        filebytes = File(h, 1, len)

\* signatures: every byte right, or wrong in one of two ways
Signatures ==
    { <<s0, s1, s2, s3>> : s0 \in {78, 0, 79}, s1 \in {69, 0, 78},
                           s2 \in {83, 0, 69}, s3 \in {26, 0, 27} }

SignatureFiles ==
    \E sig \in Signatures, b6 \in {0, 4},
       len \in {HeaderLen, HeaderLen + TrainerLen - 1, HeaderLen + TrainerLen} :
        filebytes = File(Header(sig, 0, 0, b6, 0, 0, 0, 0, 0, 0, 0), 1, len)

\* every value of byte 6, in both dialects, without and with trainer bytes
Flags6Files ==
    \E b6 \in 0..255, b7 \in {0, 8, 52, 248}, b8 \in {0, 10},
       len \in {HeaderLen, HeaderLen + TrainerLen} :
        filebytes = File(Header(valid_first_four, 0, 0, b6, b7, b8, 0, 0, 0, 0, 0),
                         1, len)

\* every value of byte 7
Flags7Files ==
    \E b6 \in {0, 224, 91}, b7 \in 0..255, b8 \in {0, 10, 255} :
        filebytes = File(Header(valid_first_four, 0, 0, b6, b7, b8, 0, 0, 0, 0, 0),
                         1, HeaderLen)

\* the trainer: flag set or clear, around the 528 byte limit, several payloads
TrainerFiles ==
    \E b6 \in {0, 4, 11, 15, 228, 251}, b7 \in {0, 8},
       seed \in 1..NumFill, len \in LongLens :
        filebytes = File(Blank(b6, b7), seed, len)

\* every value of byte 4 and of byte 5, with the byte 9 nibbles that matter
SizeFiles ==
    \E b45 \in ((0..255) \X {0, 5, 255}) \cup ({0, 5, 255} \X (0..255)),
       b7 \in {0, 8}, b9 \in {0, 15, 240, 255, 14, 165} :
        filebytes = File(Header(valid_first_four, b45[1], b45[2], 0, b7, 0, b9, 0, 0, 0, 0),
                         1, HeaderLen)

\* exponent notation together with a trainer
SizeTrainerFiles ==
    \E b4 \in {5, 240, 252, 255}, b5 \in {5, 48, 250}, seed \in 1..NumFill,
       len \in {HeaderLen, HeaderLen + TrainerLen + MaxExtra} :
        filebytes = File(Header(valid_first_four, b4, b5, 4, 8, 0, 255, 0, 0, 0, 0),
                         seed, len)

\* bytes 8..15 in every dialect
PaddingFiles ==
    \E b45 \in {0, 255}, b7 \in {0, 4, 8, 12, 48, 247},
       b8 \in {0, 10, 255}, b9 \in {0, 255}, b10 \in {0, 255}, b11 \in {0, 255},
       b12 \in {0, 1, 2, 3, 255}, pad \in {0, 255} :
        filebytes = File(Header(valid_first_four, b45, b45, 0, b7, b8, b9, b10, b11, b12, pad),
                         1, HeaderLen)

Init ==
    /\ \/ ShortFiles
       \/ SignatureFiles
       \/ Flags6Files
       \/ Flags7Files
       \/ TrainerFiles
       \/ SizeFiles
       \/ SizeTrainerFiles
       \/ PaddingFiles
    /\ pc = "call"
    /\ result = [kind |-> "none"]

New ==
    /\ pc = "call"
    /\ \E overflow_checks \in BOOLEAN :
           result' = CartridgeData_new(filebytes, overflow_checks)
    /\ pc' = "done"
    /\ UNCHANGED filebytes

Next == New

Spec == Init /\ [][Next]_vars


---------------------------------------------------------------------------
(* What the properties read of a state: the input's bytes and its outcome. *)

Done == pc = "done"

Ok == Done /\ result.kind = "Ok"

\* byte i of the input, 0-based
B(i) == filebytes[i + 1]

Bit(x, n) == (x \div (2 ^ n)) % 2

NesSignature == <<78, 69, 83, 26>>

HasHeader == Len(filebytes) >= 16

ValidSignature == HasHeader /\ \A i \in 0..3 : B(i) = NesSignature[i + 1]

TrainerFlagSet == Bit(B(6), 2) = 1

HasTrainerBytes == Len(filebytes) >= 528

\* bits 2-3 of byte 7 are 0b10
Extended == Bit(B(7), 3) = 1 /\ Bit(B(7), 2) = 0

\* the sizes after the byte 9 merge
MergedPrg == IF Extended THEN B(4) + 256 * (B(9) % 16) ELSE B(4)

MergedChr == IF Extended THEN B(5) + 256 * (B(9) \div 16) ELSE B(5)

TopNibbleF(size) == size \div 256 = 15

\* 2^exponent * (multiplier * 2 + 1) as an unbounded number: five 16-bit limbs
ExpectedUnits(size) ==
    LET multiplier == size % 4
        exponent == (size % 256) \div 4
        v == (multiplier * 2 + 1) * 2 ^ (exponent % 16)
        at == exponent \div 16
    IN  [i \in 1..5 |-> IF i = at + 1 THEN v % 65536
                        ELSE IF i = at + 2 THEN v \div 65536
                        ELSE 0]

\* a plain count as limbs
Units(n) == <<n, 0, 0, 0>>

\* the inputs the specification says decode to a descriptor
Decodable == ValidSignature /\ (TrainerFlagSet => HasTrainerBytes)

---------------------------------------------------------------------------
\* C1: every input shorter than 16 bytes, whatever its bytes, fails with
\* TooShort, never with InvalidHeader and never with a descriptor.
C1_TooShort ==
    (Done /\ Len(filebytes) < 16) => result = [kind |-> "TooShort"]

\* a 15 byte input with a valid signature and the trainer flag set was rejected
C1_Witness ==
    /\ Done
    /\ Len(filebytes) = 15
    /\ \A i \in 0..3 : B(i) = NesSignature[i + 1]
    /\ Bit(B(6), 2) = 1
    /\ result.kind = "TooShort"

\* C2: an input of at least 16 bytes whose first four bytes differ from the
\* signature fails with InvalidHeader{index}, index the smallest differing
\* position, also when the trainer flag is set and the input is under 528 bytes.
C2_InvalidSignature ==
    (Done /\ HasHeader /\ ~ValidSignature) =>
        LET first == CHOOSE i \in 0..3 :
                         /\ B(i) # NesSignature[i + 1]
                         /\ \A j \in 0..(i - 1) : B(j) = NesSignature[j + 1]
        IN  result = [kind |-> "InvalidHeader", index |-> first]

\* bytes 2 and 3 both wrong, trainer flag set without trainer bytes: index is 2
C2_Witness ==
    /\ Done
    /\ HasHeader /\ ~HasTrainerBytes /\ TrainerFlagSet
    /\ B(0) = 78 /\ B(1) = 69 /\ B(2) # 83 /\ B(3) # 26
    /\ result = [kind |-> "InvalidHeader", index |-> 2]

\* C3: with a valid signature: trainer flag set and at least 528 bytes give a
\* descriptor whose trainer is bytes [16, 528) in order; flag set and fewer
\* bytes give InvalidHeader{6}; flag clear gives no trainer.
C3_Trainer ==
    (Done /\ ValidSignature) =>
        /\ (TrainerFlagSet /\ HasTrainerBytes) =>
               /\ result.kind = "Ok"
               /\ result.trainer = [present |-> TRUE,
                                    bytes |-> [i \in 1..512 |-> filebytes[16 + i]]]
        /\ (TrainerFlagSet /\ ~HasTrainerBytes) =>
               result = [kind |-> "InvalidHeader", index |-> 6]
        /\ (~TrainerFlagSet /\ result.kind = "Ok") => ~result.trainer.present

\* C4: mapper_number is the high nibble of byte 6, the high nibble of byte 7
\* as bits 4-7 and, in the Extended dialect only, the low nibble of byte 8 as
\* bits 8-11; so it is in 0..4095, and in 0..255 in the Legacy dialect.
C4_MapperNumber ==
    Ok =>
        /\ result.mapper_number =
               (B(6) \div 16) + 16 * (B(7) \div 16)
               + (IF Extended THEN 256 * (B(8) % 16) ELSE 0)
        /\ result.mapper_number \in 0..4095
        /\ ~Extended => result.mapper_number \in 0..255
        /\ (B(6) = 224 /\ B(7) = 48) => result.mapper_number = 62
        /\ (B(6) = 224 /\ B(7) = 56 /\ B(8) = 10) => result.mapper_number = 2622

\* byte6 = 0xE0, byte7 = 0x38, byte8 = 0x0A decoded to 0xA3E
C4_Witness ==
    /\ Ok
    /\ B(6) = 224 /\ B(7) = 56 /\ B(8) = 10
    /\ result.mapper_number = 2622

\* C5: there are two failure outcomes only: an input with a valid signature
\* and, when the trainer flag is set, at least 528 bytes decodes to a
\* descriptor for every value of bytes 4..15.
C5_NoOtherFailure ==
    (Done /\ Decodable) => result.kind = "Ok"

\* C6: a merged size whose top nibble is 0xF becomes exactly
\* 2^exponent * (multiplier * 2 + 1), computed without wrap-around, replacing
\* the merged value, for PRG and CHR each on its own.
C6_ExponentMultiplier ==
    (Done /\ Decodable) =>
        /\ TopNibbleF(MergedPrg) =>
               /\ ~(result.kind = "panic" /\ result.at = "prg_rom_size")
               /\ result.kind = "Ok" =>
                      result.prg_rom.capacity \o <<0>> = ExpectedUnits(MergedPrg)
        /\ TopNibbleF(MergedChr) =>
               /\ ~(result.kind = "panic" /\ result.at = "chr_rom_size")
               /\ result.kind = "Ok" =>
                      result.chr_rom.capacity \o <<0>> = ExpectedUnits(MergedChr)

\* C7: vertical_mirroring is bit 0 of byte 6 and four_screen_vram is bit 3 of
\* byte 6, each whatever the other bits and bytes are.
C7_Mirroring ==
    Ok =>
        /\ result.vertical_mirroring = (Bit(B(6), 0) = 1)
        /\ result.four_screen_vram = (Bit(B(6), 3) = 1)

\* byte 6 = 0xF7: every bit set but bit 3, Extended dialect
C7_Witness ==
    /\ Ok
    /\ B(6) = 247 /\ B(7) = 248
    /\ result.vertical_mirroring
    /\ ~result.four_screen_vram

\* the bytes 8..15 an input's own are replaced by
AltPadding ==
    { <<0, 0, 0, 0, 0, 0, 0, 0>>,
      <<255, 255, 255, 255, 255, 255, 255, 255>>,
      <<15, 255, 171, 205, 3, 1, 2, 3>> }

\* the input with bytes 8..15 (those it has) replaced by pad
WithPadding(bytes, pad) ==
    [i \in 1..Len(bytes) |-> IF i \in 9..16 THEN pad[i - 8] ELSE bytes[i]]

\* C8: the dialect is Extended exactly when bits 2-3 of byte 7 are 0b10; in
\* the Legacy dialect bytes 8..15 are padding: replacing them changes nothing
\* of the outcome.
C8_LegacyPadding ==
    Done =>
        /\ (Len(filebytes) > 7 /\ ~Extended) =>
               \A pad \in AltPadding, overflow_checks \in BOOLEAN :
                   CartridgeData_new(WithPadding(filebytes, pad), overflow_checks) = result
        /\ (result.kind = "Ok" /\ B(8) % 16 # 0) =>
               (result.mapper_number >= 256 <=> Extended)

\* byte 7 = 0x0C (bits 2-3 are 0b11) with bytes 8, 9 = 0xFF decoded as Legacy
C8_Witness ==
    /\ Ok
    /\ B(7) = 12 /\ B(8) = 255 /\ B(9) = 255 /\ B(4) = 255 /\ B(5) = 255
    /\ result.mapper_number = 0
    /\ result.prg_rom.capacity = Units(255)
    /\ result.chr_rom.capacity = Units(255)

\* C9: a size whose merged value has not top nibble 0xF is, in the Extended
\* dialect, byte 4 (5) with the low (high) nibble of byte 9 as bits 8-11, in
\* 0..3839, and in the Legacy dialect byte 4 (5) itself whatever byte 9 is.
C9_PlainSizes ==
    Ok =>
        /\ ~TopNibbleF(MergedPrg) =>
               /\ result.prg_rom.capacity = Units(MergedPrg)
               /\ MergedPrg \in 0..3839
        /\ ~TopNibbleF(MergedChr) =>
               /\ result.chr_rom.capacity = Units(MergedChr)
               /\ MergedChr \in 0..3839
        /\ ~Extended =>
               /\ result.prg_rom.capacity = Units(B(4))
               /\ result.chr_rom.capacity = Units(B(5))

\* Extended, byte 9 = 0xA5, byte 4 = 0xFF, byte 5 = 0x05: PRG 0x5FF, CHR 0xA05
C9_Witness ==
    /\ Ok
    /\ Extended /\ B(9) = 165 /\ B(4) = 255 /\ B(5) = 5
    /\ result.prg_rom.capacity = Units(1535)
    /\ result.chr_rom.capacity = Units(2565)

===========================================================================
